---- MODULE Spec2Model ----
(***************************************************************************)
(* Model of neural_condense_core/protocol.py (TextCompressProtocol) and of *)
(* tests/test_synthetic.py (benchmark_challenger).                         *)
(*                                                                         *)
(* SpecMsg  : one TextCompressProtocol message and its three methods.      *)
(* Spec     : one run of benchmark_challenger, one action per pass through *)
(*            the body of the loop and one per block after the loop.       *)
(* LiveSpec : Spec with weak fairness (the single thread keeps running).   *)
(***************************************************************************)
EXTENDS Integers, Sequences, FiniteSets, TLC

VARIABLES
    \* ---- TextCompressProtocol ----
    msg,              \* the message: context, compressed_tokens, expected_completion
    payload,          \* what the last get_miner_payload() returned
    wire,             \* what the last deserialize() returned
    prevWire,         \* wire before the last operation
    prev,             \* msg before the last operation
    op,               \* the last operation on the message
    prevOp,           \* the operation before it
    \* ---- benchmark_challenger ----
    n_iterations,     \* argument
    tasks,            \* the configured task list
    ctx_len,          \* len(formatted_context) of what the generator stub returns
    tok_len,          \* len(tokenizer.encode(formatted_context))
    elapsed,          \* time.time() - start_time of a generate_challenge call
    pc,               \* position in benchmark_challenger
    i,                \* outer loop variable
    t,                \* index of the inner loop variable in tasks
    time_logs,
    error_count,
    dataset_items,
    context_lengths,
    token_counts,
    avg_time_logs,
    error_rate,
    stats,            \* mean_length, std_length, mean_tokens, std_tokens
    file,             \* content of synthetic_samples.json
    writes,           \* number of times the file was written
    summary,          \* the returned dict
    \* ---- history of the run (not program state) ----
    requests,         \* <<task, i>> of every generate_challenge call, in order
    okflags,          \* per request: did the pass through the try body complete
    n_gen_ok,         \* number of generate_challenge calls that returned
    ok_time,          \* per task: elapsed time of the passes that completed
    last              \* outcome of the last pass

msgVars == <<msg, payload, wire, prevWire, prev, op, prevOp>>
benchVars == <<n_iterations, tasks, ctx_len, tok_len, elapsed, pc, i, t, time_logs,
               error_count, dataset_items, context_lengths, token_counts,
               avg_time_logs, error_rate, stats, file, writes, summary,
               requests, okflags, n_gen_ok, ok_time, last>>
vars == <<msgVars, benchVars>>

-----------------------------------------------------------------------------
\* Bounds

MaxRows == 2
MaxDim == 2
MaxIterations == 3
\* most generate_challenge calls in one run
MaxCalls == 6

SeqsUpTo(S, n) == UNION {[1..k -> S] : k \in 0..n}

\* two distinct float values
Floats == {0, 1}
Contexts == {"", "ctx"}
Completions == {"", "gt"}
TokenMatrices == SeqsUpTo(SeqsUpTo(Floats, MaxDim), MaxRows)

AllTasks == <<"question_answering", "causal_conversation">>
TaskConfigs == {SubSeq(AllTasks, 1, 1), AllTasks}
Durations == {1, 2}
Lengths == {1, 2}
StaleItem == [task |-> "stale", id |-> 0, data |-> [formatted_context |-> 0]]
PriorFiles == {<<>>, <<StaleItem>>}

-----------------------------------------------------------------------------
\* TextCompressProtocol

NoResult == [absent |-> TRUE]

TextCompressProtocol(c, ct, e) ==
    [context |-> c, compressed_tokens |-> ct, expected_completion |-> e]

GetMinerPayloadLeaky(m) ==
    [context |-> m.context, expected_completion |-> m.expected_completion]

GetMinerPayload(m) == [context |-> m.context]

HideGroundTruthWrongField(m) == [m EXCEPT !.context = ""]

HideGroundTruth(m) == [m EXCEPT !.expected_completion = ""]

DeserializeDropsRow(m) ==
    [context |-> m.context,
     compressed_tokens |->
        IF Len(m.compressed_tokens) = 0 THEN m.compressed_tokens
        ELSE Tail(m.compressed_tokens),
     expected_completion |-> m.expected_completion]

Deserialize(m) ==
    [context |-> m.context,
     compressed_tokens |-> m.compressed_tokens,
     expected_completion |-> m.expected_completion]

\* TextCompressProtocol(**wire)
FromWire(w) ==
    TextCompressProtocol(w.context, w.compressed_tokens, w.expected_completion)

Did(name) ==
    /\ op' = name
    /\ prevOp' = op
    /\ prev' = msg
    /\ prevWire' = wire

get_miner_payload ==
    /\ payload' = GetMinerPayload(msg)
    /\ Did("get_miner_payload")
    /\ UNCHANGED <<msg, wire, benchVars>>

hide_ground_truth ==
    /\ msg' = HideGroundTruth(msg)
    /\ Did("hide_ground_truth")
    /\ UNCHANGED <<payload, wire, benchVars>>

deserialize ==
    /\ wire' = Deserialize(msg)
    /\ Did("deserialize")
    /\ UNCHANGED <<msg, payload, benchVars>>

from_wire ==
    /\ wire # NoResult
    /\ msg' = FromWire(wire)
    /\ Did("from_wire")
    /\ UNCHANGED <<payload, wire, benchVars>>

-----------------------------------------------------------------------------
\* benchmark_challenger

NaN == <<0, 0>>
NoSummary == [absent |-> TRUE]

RECURSIVE Sum(_)
Sum(s) == IF Len(s) = 0 THEN 0 ELSE Head(s) + Sum(Tail(s))

RECURSIVE SumSq(_)
SumSq(s) == IF Len(s) = 0 THEN 0 ELSE Head(s) * Head(s) + SumSq(Tail(s))

\* numpy mean as the fraction <<sum, count>>; NaN for an empty array
Mean(s) == IF Len(s) = 0 THEN NaN ELSE <<Sum(s), Len(s)>>

\* numpy std, as the fraction that is its square; NaN for an empty array
Std(s) ==
    IF Len(s) = 0 THEN NaN
    ELSE <<Len(s) * SumSq(s) - Sum(s) * Sum(s), Len(s) * Len(s)>>

total_iterations == n_iterations * Len(tasks)

task == tasks[t]

ItemIdByCount ==
    [task |-> task, id |-> Len(dataset_items),
     data |-> [formatted_context |-> ctx_len]]

Item == [task |-> task, id |-> i, data |-> [formatted_context |-> ctx_len]]

NextIndex == IF t < Len(tasks) THEN <<i, t + 1>> ELSE <<i + 1, 1>>

Advance ==
    /\ i' = NextIndex[1]
    /\ t' = NextIndex[2]

InBody == pc = "loop" /\ i < n_iterations

Requested(genOk, ok, outcome) ==
    /\ requests' = Append(requests, <<task, i>>)
    /\ okflags' = Append(okflags, ok)
    /\ n_gen_ok' = n_gen_ok + (IF genOk THEN 1 ELSE 0)
    /\ last' = outcome

AfterLoopUnchanged ==
    UNCHANGED <<n_iterations, tasks, ctx_len, tok_len, elapsed, pc, avg_time_logs,
                error_rate, stats, file, writes, summary, msgVars>>

IterationOkPrepend ==
    /\ InBody
    /\ time_logs' = [time_logs EXCEPT ![task] = @ + elapsed]
    /\ ok_time' = [ok_time EXCEPT ![task] = @ + elapsed]
    /\ context_lengths' = Append(context_lengths, ctx_len)
    /\ token_counts' = Append(token_counts, tok_len)
    /\ dataset_items' = <<Item>> \o dataset_items
    /\ Requested(TRUE, TRUE, "ok")
    /\ Advance
    /\ UNCHANGED error_count
    /\ AfterLoopUnchanged

\* the try body runs to its end
IterationOk ==
    /\ InBody
    /\ time_logs' = [time_logs EXCEPT ![task] = @ + elapsed]
    /\ ok_time' = [ok_time EXCEPT ![task] = @ + elapsed]
    /\ context_lengths' = Append(context_lengths, ctx_len)
    /\ token_counts' = Append(token_counts, tok_len)
    /\ dataset_items' = Append(dataset_items, Item)
    /\ Requested(TRUE, TRUE, "ok")
    /\ Advance
    /\ UNCHANGED error_count
    /\ AfterLoopUnchanged

GenerateFailsBreak ==
    /\ InBody
    /\ error_count' = error_count + 1
    /\ Requested(FALSE, FALSE, "generate_fail")
    /\ i' = n_iterations
    /\ t' = 1
    /\ UNCHANGED <<time_logs, ok_time, context_lengths, token_counts, dataset_items>>
    /\ AfterLoopUnchanged

\* generate_challenge raises
GenerateFails ==
    /\ InBody
    /\ error_count' = error_count + 1
    /\ Requested(FALSE, FALSE, "generate_fail")
    /\ Advance
    /\ UNCHANGED <<time_logs, ok_time, context_lengths, token_counts, dataset_items>>
    /\ AfterLoopUnchanged

\* protocol.validator_payload raises while the item is built
PayloadFails ==
    /\ InBody
    /\ error_count' = error_count + 1
    /\ Requested(TRUE, FALSE, "payload_fail")
    /\ Advance
    /\ UNCHANGED <<time_logs, ok_time, context_lengths, token_counts, dataset_items>>
    /\ AfterLoopUnchanged

\* item["data"]["task_data"]["formatted_context"] raises; the elapsed time was
\* already added to time_logs
ExtractFails ==
    /\ InBody
    /\ time_logs' = [time_logs EXCEPT ![task] = @ + elapsed]
    /\ error_count' = error_count + 1
    /\ Requested(TRUE, FALSE, "extract_fail")
    /\ Advance
    /\ UNCHANGED <<ok_time, context_lengths, token_counts, dataset_items>>
    /\ AfterLoopUnchanged

\* tokenizer.encode raises; the elapsed time and the context length were already
\* recorded
TokenizeFails ==
    /\ InBody
    /\ time_logs' = [time_logs EXCEPT ![task] = @ + elapsed]
    /\ context_lengths' = Append(context_lengths, ctx_len)
    /\ error_count' = error_count + 1
    /\ Requested(TRUE, FALSE, "tokenize_fail")
    /\ Advance
    /\ UNCHANGED <<ok_time, token_counts, dataset_items>>
    /\ AfterLoopUnchanged

LoopUnchanged ==
    UNCHANGED <<n_iterations, tasks, ctx_len, tok_len, elapsed, i, t, time_logs,
                error_count,
                dataset_items, context_lengths, token_counts, requests, okflags,
                n_gen_ok, ok_time, last, msgVars>>

\* range(n_iterations) is exhausted; pbar.close()
LoopExit ==
    /\ pc = "loop"
    /\ i >= n_iterations
    /\ pc' = "summary"
    /\ UNCHANGED <<avg_time_logs, error_rate, stats, file, writes, summary>>
    /\ LoopUnchanged

ErrorRatePerIteration == <<error_count, n_iterations>>

ErrorRate == <<error_count, total_iterations>>

\* avg_time_logs and error_rate; a division by zero ends the run
Summarize ==
    /\ pc = "summary"
    /\ IF n_iterations = 0 \/ total_iterations = 0
       THEN /\ pc' = "crashed"
            /\ UNCHANGED <<avg_time_logs, error_rate>>
       ELSE /\ avg_time_logs' =
                  [k \in DOMAIN time_logs |-> <<time_logs[k], n_iterations>>]
            /\ error_rate' = ErrorRate
            /\ pc' = "stats"
    /\ UNCHANGED <<stats, file, writes, summary>>
    /\ LoopUnchanged

AnalyzeCrashesOnEmpty ==
    /\ pc = "stats"
    /\ IF Len(context_lengths) = 0 \/ Len(token_counts) = 0
       THEN /\ pc' = "crashed"
            /\ UNCHANGED stats
       ELSE /\ stats' = [mean_length |-> Mean(context_lengths),
                         std_length |-> Std(context_lengths),
                         mean_tokens |-> Mean(token_counts),
                         std_tokens |-> Std(token_counts)]
            /\ pc' = "save"
    /\ UNCHANGED <<avg_time_logs, error_rate, file, writes, summary>>
    /\ LoopUnchanged

\* mean and std of context_lengths and token_counts
Analyze ==
    /\ pc = "stats"
    /\ stats' = [mean_length |-> Mean(context_lengths),
                 std_length |-> Std(context_lengths),
                 mean_tokens |-> Mean(token_counts),
                 std_tokens |-> Std(token_counts)]
    /\ pc' = "save"
    /\ UNCHANGED <<avg_time_logs, error_rate, file, writes, summary>>
    /\ LoopUnchanged

\* json.dump(dataset_items, file) on a file opened with "w"
SaveDataset ==
    /\ pc = "save"
    /\ file' = dataset_items
    /\ writes' = writes + 1
    /\ pc' = "return"
    /\ UNCHANGED <<avg_time_logs, error_rate, stats, summary>>
    /\ LoopUnchanged

Return ==
    /\ pc = "return"
    /\ summary' = [error_count |-> error_count,
                   error_rate |-> error_rate,
                   avg_time_per_task |-> avg_time_logs,
                   context_length_mean |-> stats.mean_length,
                   context_length_std |-> stats.std_length,
                   token_count_mean |-> stats.mean_tokens,
                   token_count_std |-> stats.std_tokens]
    /\ pc' = "done"
    /\ UNCHANGED <<avg_time_logs, error_rate, stats, file, writes>>
    /\ LoopUnchanged

-----------------------------------------------------------------------------
\* Specifications

MsgIdle ==
    /\ msg = TextCompressProtocol("", <<>>, "")
    /\ payload = NoResult
    /\ wire = NoResult
    /\ prevWire = NoResult
    /\ prev = msg
    /\ op = "none"
    /\ prevOp = "none"

BenchStart(n, cfg) ==
    /\ n_iterations = n
    /\ tasks = cfg
    /\ pc = "loop"
    /\ i = 0
    /\ t = 1
    /\ time_logs = [k \in {cfg[j] : j \in 1..Len(cfg)} |-> 0]
    /\ ok_time = [k \in {cfg[j] : j \in 1..Len(cfg)} |-> 0]
    /\ error_count = 0
    /\ dataset_items = <<>>
    /\ context_lengths = <<>>
    /\ token_counts = <<>>
    /\ avg_time_logs = <<>>
    /\ error_rate = NaN
    /\ stats = NoResult
    /\ writes = 0
    /\ summary = NoSummary
    /\ requests = <<>>
    /\ okflags = <<>>
    /\ n_gen_ok = 0
    /\ last = "none"

\* a run of benchmark_challenger
Init ==
    /\ MsgIdle
    /\ \E n \in 0..MaxIterations, cfg \in TaskConfigs :
          /\ n * Len(cfg) <= MaxCalls
          /\ BenchStart(n, cfg)
    /\ ctx_len \in Lengths
    /\ elapsed \in Durations
    /\ tok_len \in 1..ctx_len
    /\ file \in PriorFiles

Next ==
    \/ IterationOk
    \/ GenerateFails
    \/ PayloadFails
    \/ ExtractFails
    \/ TokenizeFails
    \/ LoopExit
    \/ Summarize
    \/ Analyze
    \/ SaveDataset
    \/ Return

Spec == Init /\ [][Next]_vars

LiveSpec == Init /\ [][Next]_vars /\ WF_vars(Next)

\* a message constructed with any field values; no benchmark running
InitMsg ==
    /\ \E c \in Contexts, ct \in TokenMatrices, e \in Completions :
          msg = TextCompressProtocol(c, ct, e)
    /\ payload = NoResult
    /\ wire = NoResult
    /\ prevWire = NoResult
    /\ prev = msg
    /\ op = "none"
    /\ prevOp = "none"
    /\ BenchStart(0, SubSeq(AllTasks, 1, 1))
    /\ ctx_len = 1
    /\ tok_len = 1
    /\ elapsed = 1
    /\ file = <<>>

NextMsg ==
    \/ get_miner_payload
    \/ hide_ground_truth
    \/ deserialize
    \/ from_wire

SpecMsg == InitMsg /\ [][NextMsg]_vars

-----------------------------------------------------------------------------
\* Properties of TextCompressProtocol (checked under SpecMsg)

WireKeys == {"context", "compressed_tokens", "expected_completion"}

\* C1: after hide_ground_truth() the field expected_completion is the empty
\* string and the other fields are as before; a second hide_ground_truth() right
\* after the first leaves the message exactly as the first left it.
C1_HideGroundTruth ==
    /\ op = "hide_ground_truth" =>
          /\ msg.expected_completion = ""
          /\ msg.context = prev.context
          /\ msg.compressed_tokens = prev.compressed_tokens
    /\ (op = "hide_ground_truth" /\ prevOp = "hide_ground_truth") => msg = prev

C1_Witness ==
    /\ op = "hide_ground_truth"
    /\ prevOp = "hide_ground_truth"
    /\ msg.context # ""
    /\ Len(msg.compressed_tokens) = MaxRows

\* C2: get_miner_payload() returns a mapping whose only key is context, holding
\* the current context, whatever expected_completion and compressed_tokens hold,
\* and leaves the message unchanged.
C2_MinerPayload ==
    op = "get_miner_payload" =>
        /\ DOMAIN payload = {"context"}
        /\ payload.context = msg.context
        /\ msg = prev

C2_Witness ==
    /\ op = "get_miner_payload"
    /\ msg.expected_completion # ""
    /\ msg.compressed_tokens # <<>>
    /\ msg.context # ""

\* C3: deserialize() returns exactly the keys context, compressed_tokens and
\* expected_completion, each equal to the message's field, compressed_tokens with
\* the same rows in the same order; the wire form of a message rebuilt from a
\* wire form is that wire form.
C3_WireForm ==
    op = "deserialize" =>
        /\ DOMAIN wire = WireKeys
        /\ wire.context = msg.context
        /\ wire.expected_completion = msg.expected_completion
        /\ Len(wire.compressed_tokens) = Len(msg.compressed_tokens)
        /\ \A r \in 1..Len(msg.compressed_tokens) :
              /\ Len(wire.compressed_tokens[r]) = Len(msg.compressed_tokens[r])
              /\ \A c \in 1..Len(msg.compressed_tokens[r]) :
                    wire.compressed_tokens[r][c] = msg.compressed_tokens[r][c]
        /\ prevOp = "from_wire" => wire = prevWire

C3_Witness ==
    /\ op = "deserialize"
    /\ prevOp = "from_wire"
    /\ Len(msg.compressed_tokens) = 2
    /\ Len(msg.compressed_tokens[1]) # Len(msg.compressed_tokens[2])
    /\ msg.compressed_tokens[1] # <<>>
    /\ msg.expected_completion # ""

-----------------------------------------------------------------------------
\* Properties of benchmark_challenger (checked under Spec and LiveSpec)

RECURSIVE CountTrue(_)
CountTrue(flags) ==
    IF Len(flags) = 0 THEN 0
    ELSE (IF Head(flags) THEN 1 ELSE 0) + CountTrue(Tail(flags))

\* equality of two fractions with nonzero denominators
RatEq(a, b) == a[2] # 0 /\ b[2] # 0 /\ a[1] * b[2] = b[1] * a[2]

Tag(item) == <<item.task, item.id>>

Tags(items) == [j \in 1..Len(items) |-> Tag(items[j])]

\* the j-th pair of the enumeration: iteration (j-1) \div T, task ((j-1) % T) + 1
PairAt(j) == <<tasks[((j - 1) % Len(tasks)) + 1], (j - 1) \div Len(tasks)>>

RECURSIVE SuccessfulPairs(_)
SuccessfulPairs(j) ==
    IF j = 0 THEN <<>>
    ELSE SuccessfulPairs(j - 1) \o (IF okflags[j] THEN <<PairAt(j)>> ELSE <<>>)

RECURSIVE IsSubsequence(_, _)
IsSubsequence(s, r) ==
    IF Len(s) = 0 THEN TRUE
    ELSE IF Len(r) = 0 THEN FALSE
    ELSE IF Head(s) = Head(r) THEN IsSubsequence(Tail(s), Tail(r))
    ELSE IsSubsequence(s, Tail(r))

TaskIdx(name) == CHOOSE j \in 1..Len(tasks) : tasks[j] = name

TaskMajorLess(x, y) ==
    \/ TaskIdx(x[1]) < TaskIdx(y[1])
    \/ TaskIdx(x[1]) = TaskIdx(y[1]) /\ x[2] < y[2]

IterationMajorLess(x, y) ==
    \/ x[2] < y[2]
    \/ x[2] = y[2] /\ TaskIdx(x[1]) < TaskIdx(y[1])

C5_ZeroIterationsNoCrash == n_iterations = 0 => pc # "crashed"

\* C6: the collection written to the output file holds exactly one entry per
\* pass that completed and none for a pass that failed, in the order of the
\* requests, each entry's id being the index of the iteration that produced it;
\* a run that returns has written it.
C6_PersistedEntries ==
    /\ writes > 0 => Tags(file) = SuccessfulPairs(Len(okflags))
    /\ pc = "done" => writes > 0

C6_Witness ==
    /\ pc = "done"
    /\ n_iterations = 3
    /\ Len(tasks) = 1
    /\ okflags = <<TRUE, FALSE, TRUE>>
    /\ Len(file) = 2
    /\ file[1].id = 0
    /\ file[2].id = 2

\* C7: with iterations >= 1 the run never ends in an error and eventually
\* returns its summary; the output file is not written before the loop and the
\* statistics are done, and is written exactly once, with the whole collection,
\* by the time the run returns; statistics over an empty collection are NaN.
C7_FinishesAndWritesOnce ==
    /\ [](n_iterations >= 1 => pc # "crashed")
    /\ [](pc \in {"loop", "summary", "stats", "save"} => writes = 0)
    /\ [](pc \in {"return", "done"} => writes = 1 /\ file = dataset_items)
    /\ [](pc = "done" =>
            /\ summary # NoSummary
            /\ Len(token_counts) = 0 =>
                  (summary.token_count_mean = NaN /\ summary.token_count_std = NaN)
            /\ Len(context_lengths) = 0 =>
                  (summary.context_length_mean = NaN
                   /\ summary.context_length_std = NaN)
            /\ CountTrue(okflags) = 0 => summary.token_count_mean = NaN)
    /\ (n_iterations >= 1) ~> (pc = "done")

C7_Witness ==
    /\ pc = "done"
    /\ n_iterations = MaxIterations
    /\ summary.error_count = total_iterations
    /\ summary.token_count_mean = NaN
    /\ writes = 1
    /\ file = <<>>

\* C8: every (task, iteration) pair is requested exactly once: no pair is
\* requested twice, the number of requests made is the number of pairs passed,
\* and when the loop is over every pair has been requested.
C8_OneCallPerPair ==
    /\ \A a, b \in 1..Len(requests) : a # b => requests[a] # requests[b]
    /\ pc = "loop" => Len(requests) = i * Len(tasks) + (t - 1)
    /\ pc \notin {"loop"} =>
          /\ Len(requests) = n_iterations * Len(tasks)
          /\ \A it \in 0..(n_iterations - 1), ti \in 1..Len(tasks) :
                \E j \in 1..Len(requests) : requests[j] = <<tasks[ti], it>>

C8_Witness ==
    /\ pc = "done"
    /\ Len(tasks) = 2
    /\ n_iterations = 3
    /\ okflags[1] = FALSE
    /\ okflags[2] = FALSE
    /\ okflags[6] = TRUE

C10_FailureChangesOnlyErrorCount ==
    /\ Len(context_lengths) = CountTrue(okflags)
    /\ Len(token_counts) = CountTrue(okflags)
    /\ Len(dataset_items) = CountTrue(okflags)
    /\ time_logs = ok_time

====
